---- MODULE Spec2Model ----
(***************************************************************************)
(* Quantapp: the paper-trading portfolio (PaperTradingPortfolio) and the   *)
(* backtest engine (BacktestEngine) as state machines.                     *)
(*                                                                         *)
(* Numbers.  The code computes in IEEE doubles; the model computes the     *)
(* same expressions exactly, on fixed-point grids:                         *)
(*   - a caller's price and a share count are whole numbers;               *)
(*   - a rate (commission, slippage) is Num / RateDen;                     *)
(*   - a price held by the portfolio and a total (shares x price) are in   *)
(*     "milli" (1/RateDen of a currency unit);                             *)
(*   - cash and commissions are in "micro" (1/RateDen^2 of a unit).        *)
(* Every product the code forms is then an integer, with no rounding.      *)
(* Floating-point rounding error is outside the model.                     *)
(***************************************************************************)
EXTENDS Integers, Sequences, FiniteSets, TLC

\* ------------------------------------------------------------------ bounds
MaxShares == 2          \* a caller asks for 1 share or for MaxShares shares
InitialCash == 250      \* config.initialCash, in currency units

ShareSet == {1, MaxShares}        \* the share counts of market orders
PendingShareSet == {MaxShares}    \* the share counts of limit and stop orders
Symbols == {"A", "B"}   \* the symbols callers trade in Spec
PriceSet == {100, 200}  \* the prices callers supply in Spec
OrderIds == {1, 2}      \* the orders one portfolio creates in a behaviour of Spec
DeepSymbols == {"A"}    \* SpecDeep: one symbol, one price, longer behaviours
DeepPrices == {100}
DeepOrderIds == {1, 2, 3, 4}

\* ------------------------------------------------------- PortfolioConfig
RateDen == 1000         \* 0.001 = 1 / 1000
CommissionNum == 1      \* config.commission = CommissionNum / RateDen
SlippageNum == 1        \* config.slippage   = SlippageNum / RateDen

Micro == RateDen * RateDen

VARIABLES
  cash,          \* this.cash, micro
  positions,     \* this.positions: symbol -> Position, a function on the held symbols
  orders,        \* every Order object created so far, by creation index (its id)
  openOrders,    \* this.openOrders: the ids of the Order objects in the list, in order
  tradeHistory,  \* this.tradeHistory
  ret,           \* what the last call did: [op, result]
  \* --- BacktestEngine
  btConfig,      \* this.config
  btCapital,     \* this.capital, in BtMicro
  btPositions,   \* this.positions: a Map in insertion order, <<[key, ...position]>>
  btTrades,      \* this.trades
  btEquity,      \* this.equity
  btDates,       \* this.dates
  btInput,       \* the arguments of run: [historicalData, signals]
  btRun,         \* run: [pc, sortedData, sortedSignals, i, signalIndex] and the calls made (runs)
  btResults,     \* the caller: the BacktestResult of every call of run, as it was on return
  \* --- the exported functions (position sizing, signal generation)
  libCall,       \* the call being made: [fn, ...arguments]
  libReturn      \* what the call returned or threw

pvars == <<cash, positions, orders, openOrders, tradeHistory, ret>>
btvars == <<btConfig, btCapital, btPositions, btTrades, btEquity, btDates, btInput, btRun,
           btResults>>
libvars == <<libCall, libReturn>>
vars == <<cash, positions, orders, openOrders, tradeHistory, ret,
          btConfig, btCapital, btPositions, btTrades, btEquity, btDates, btInput, btRun,
          btResults,
          libCall, libReturn>>

Abs(x) == IF x < 0 THEN -x ELSE x

\* Number(x.toFixed(2)) of a micro amount: the nearest multiple of 0.01, a tie
\* going to the larger magnitude.
ToFixed2(x) ==
  LET cent == Micro \div 100
      n == (Abs(x) * 2 + cent) \div (2 * cent)
  IN IF x < 0 THEN -(n * cent) ELSE n * cent

\* ---------------------------------------------------------------- orders
NoPrice == 0   \* an absent optional number (price, filledPrice, filledShares)

\* generateOrderId: a fresh id per call (timestamp plus 9 random characters);
\* the model names an order by its creation index.
generateOrderId == Len(orders) + 1

\* The portfolio state executeOrder reads and writes.
PState == [cash |-> cash, positions |-> positions, tradeHistory |-> tradeHistory]

SetPosition(pos, symbol, p) ==
  [s \in DOMAIN pos \cup {symbol} |-> IF s = symbol THEN p ELSE pos[s]]

DeletePosition(pos, symbol) == [s \in DOMAIN pos \ {symbol} |-> pos[s]]

\* Position: shares, currentPrice (milli), marketValue (milli).  avgPrice,
\* costBasis and the unrealized P&L fields are written by the code and read by
\* nothing but the reported Position; they are not part of the model.
NewTrade(order, total) ==
  [id |-> order.id, symbol |-> order.symbol, side |-> order.side,
   shares |-> order.filledShares, price |-> order.filledPrice,
   commission |-> order.commission, total |-> total]

executeBuy(st, order, total) ==
  LET pos == st.positions
      symbol == order.symbol
      np == IF symbol \in DOMAIN pos
            THEN [shares |-> pos[symbol].shares + order.filledShares,
                  currentPrice |-> order.filledPrice,
                  marketValue |-> (pos[symbol].shares + order.filledShares) * order.filledPrice]
            ELSE [shares |-> order.filledShares,
                  currentPrice |-> order.filledPrice,
                  marketValue |-> total]
  IN [cash |-> st.cash - (total * RateDen + order.commission),
      positions |-> SetPosition(pos, symbol, np),
      tradeHistory |-> Append(st.tradeHistory, NewTrade(order, total))]

executeSell(st, order, total) ==
  LET pos == st.positions
      symbol == order.symbol
      shares == pos[symbol].shares - order.filledShares
      np == [shares |-> shares,
             currentPrice |-> pos[symbol].currentPrice,
             marketValue |-> shares * order.filledPrice]
  IN [cash |-> st.cash + (total * RateDen - order.commission),
      positions |-> IF shares = 0 THEN DeletePosition(pos, symbol)
                    ELSE SetPosition(pos, symbol, np),
      tradeHistory |-> Append(st.tradeHistory, NewTrade(order, total))]

\* executeOrder with the trade recorded before the sell's missing-position return.
executeOrder_RecordsUnfilledSell(st, order) ==
  IF order.filledPrice = NoPrice \/ order.filledShares = 0 THEN st
  ELSE LET total == order.filledShares * order.filledPrice
       IN IF order.side = "buy" THEN executeBuy(st, order, total)
          ELSE IF order.symbol \notin DOMAIN st.positions
               THEN [st EXCEPT !.tradeHistory = Append(@, NewTrade(order, total))]
          ELSE executeSell(st, order, total)

executeOrder(st, order) ==
  IF order.filledPrice = NoPrice \/ order.filledShares = 0 THEN st
  ELSE LET total == order.filledShares * order.filledPrice
       IN IF order.side = "buy" THEN executeBuy(st, order, total)
          ELSE IF order.symbol \notin DOMAIN st.positions THEN st
          ELSE executeSell(st, order, total)

\* ---------------------------------------------------------- market orders
slippageMultiplier(side) ==
  IF side = "buy" THEN RateDen + SlippageNum ELSE RateDen - SlippageNum

MarketFilledPrice(side, currentPrice) == currentPrice * slippageMultiplier(side)
MarketTotal(side, shares, currentPrice) == shares * MarketFilledPrice(side, currentPrice)
MarketCommission(side, shares, currentPrice) ==
  MarketTotal(side, shares, currentPrice) * CommissionNum
requiredCash(shares, currentPrice) ==
  MarketTotal("buy", shares, currentPrice) * RateDen
    + MarketCommission("buy", shares, currentPrice)

\* validateOrder without the cash check of a buy.
validateOrder_NoCashCheck(symbol, side, shares, currentPrice) ==
  IF side = "buy" THEN "ok"
  ELSE IF symbol \notin DOMAIN positions \/ positions[symbol].shares < shares
       THEN "InsufficientShares" ELSE "ok"

\* validateOrder with a sell checked for a position only, not for its size.
validateOrder_NoSharesCheck(symbol, side, shares, currentPrice) ==
  IF side = "buy"
  THEN IF requiredCash(shares, currentPrice) > cash THEN "InsufficientCash" ELSE "ok"
  ELSE IF symbol \notin DOMAIN positions THEN "InsufficientShares" ELSE "ok"

\* The validation of placeMarketOrder: "ok", or the error it throws.
validateOrder(symbol, side, shares, currentPrice) ==
  IF side = "buy"
  THEN IF requiredCash(shares, currentPrice) > cash THEN "InsufficientCash" ELSE "ok"
  ELSE IF symbol \notin DOMAIN positions \/ positions[symbol].shares < shares
       THEN "InsufficientShares" ELSE "ok"

MarketOrder(symbol, side, shares, currentPrice) ==
  [id |-> generateOrderId, symbol |-> symbol, side |-> side, type |-> "market",
   shares |-> shares, price |-> NoPrice, status |-> "filled",
   filledPrice |-> MarketFilledPrice(side, currentPrice),
   filledShares |-> shares,
   commission |-> MarketCommission(side, shares, currentPrice)]

\* The body of placeMarketOrder, called by op (placeMarketOrder or closePosition).
doMarketOrder(op, ids, symbol, side, shares, currentPrice) ==
  LET v == validateOrder(symbol, side, shares, currentPrice) IN
  IF v # "ok"
  THEN /\ ret' = [op |-> op, result |-> v]
       /\ UNCHANGED <<cash, positions, orders, openOrders, tradeHistory>>
  ELSE /\ generateOrderId \in ids
       /\ LET order == MarketOrder(symbol, side, shares, currentPrice)
              st == executeOrder(PState, order)
          IN /\ orders' = Append(orders, order)
             /\ cash' = st.cash
             /\ positions' = st.positions
             /\ tradeHistory' = st.tradeHistory
       /\ ret' = [op |-> op, result |-> "order"]
       /\ UNCHANGED openOrders

placeMarketOrder(ids, symbol, side, shares, currentPrice) ==
  doMarketOrder("placeMarketOrder", ids, symbol, side, shares, currentPrice)

closePosition(ids, symbol, currentPrice) ==
  IF symbol \notin DOMAIN positions
  THEN /\ ret' = [op |-> "closePosition", result |-> "null"]
       /\ UNCHANGED <<cash, positions, orders, openOrders, tradeHistory>>
  ELSE doMarketOrder("closePosition", ids, symbol, "sell",
                     positions[symbol].shares, currentPrice)

\* ------------------------------------------------- limit and stop orders
PendingOrder(type, symbol, side, shares, price) ==
  [id |-> generateOrderId, symbol |-> symbol, side |-> side, type |-> type,
   shares |-> shares, price |-> price, status |-> "pending",
   filledPrice |-> NoPrice, filledShares |-> 0, commission |-> 0]

placeLimitOrder(ids, symbol, side, shares, limitPrice) ==
  /\ generateOrderId \in ids
  /\ orders' = Append(orders, PendingOrder("limit", symbol, side, shares, limitPrice))
  /\ openOrders' = Append(openOrders, generateOrderId)
  /\ ret' = [op |-> "placeLimitOrder", result |-> "order"]
  /\ UNCHANGED <<cash, positions, tradeHistory>>

placeStopOrder(ids, symbol, side, shares, stopPrice) ==
  /\ generateOrderId \in ids
  /\ orders' = Append(orders, PendingOrder("stop", symbol, side, shares, stopPrice))
  /\ openOrders' = Append(openOrders, generateOrderId)
  /\ ret' = [op |-> "placeStopOrder", result |-> "order"]
  /\ UNCHANGED <<cash, positions, tradeHistory>>

\* openOrders without the first occurrence of id (findIndex, then splice).
RECURSIVE RemoveId(_, _)
RemoveId(seq, id) ==
  IF seq = <<>> THEN <<>>
  ELSE IF Head(seq) = id THEN Tail(seq)
  ELSE <<Head(seq)>> \o RemoveId(Tail(seq), id)

InSeq(seq, x) == \E i \in 1..Len(seq) : seq[i] = x

\* cancelOrder that splices the order out without marking it cancelled.
cancelOrder_NoStatus(orderId) ==
  IF ~InSeq(openOrders, orderId)
  THEN /\ ret' = [op |-> "cancelOrder", result |-> "false"]
       /\ UNCHANGED <<cash, positions, orders, openOrders, tradeHistory>>
  ELSE /\ openOrders' = RemoveId(openOrders, orderId)
       /\ ret' = [op |-> "cancelOrder", result |-> "true"]
       /\ UNCHANGED <<cash, positions, orders, tradeHistory>>

\* cancelOrder that marks the order cancelled and leaves it in the open list.
cancelOrder_KeepsInList(orderId) ==
  IF ~InSeq(openOrders, orderId)
  THEN /\ ret' = [op |-> "cancelOrder", result |-> "false"]
       /\ UNCHANGED <<cash, positions, orders, openOrders, tradeHistory>>
  ELSE /\ orders' = [orders EXCEPT ![orderId].status = "cancelled"]
       /\ ret' = [op |-> "cancelOrder", result |-> "true"]
       /\ UNCHANGED <<cash, positions, openOrders, tradeHistory>>

cancelOrder(orderId) ==
  IF ~InSeq(openOrders, orderId)
  THEN /\ ret' = [op |-> "cancelOrder", result |-> "false"]
       /\ UNCHANGED <<cash, positions, orders, openOrders, tradeHistory>>
  ELSE /\ orders' = [orders EXCEPT ![orderId].status = "cancelled"]
       /\ openOrders' = RemoveId(openOrders, orderId)
       /\ ret' = [op |-> "cancelOrder", result |-> "true"]
       /\ UNCHANGED <<cash, positions, tradeHistory>>

\* --------------------------------------------------------- updatePositions
\* prices: a function from the symbols that have a price to the price.
refreshPositions(pos, prices) ==
  [s \in DOMAIN pos |->
     IF s \in DOMAIN prices
     THEN [shares |-> pos[s].shares,
           currentPrice |-> prices[s] * RateDen,
           marketValue |-> pos[s].shares * (prices[s] * RateDen)]
     ELSE pos[s]]

\* shouldFill with a stop order triggered like a limit order.
shouldFill_StopAsLimit(order, prices) ==
  /\ order.symbol \in DOMAIN prices
  /\ prices[order.symbol] # 0
  /\ order.price # NoPrice
  /\ \/ order.side = "buy" /\ prices[order.symbol] <= order.price
     \/ order.side = "sell" /\ prices[order.symbol] >= order.price

shouldFill(order, prices) ==
  /\ order.symbol \in DOMAIN prices
  /\ prices[order.symbol] # 0
  /\ order.price # NoPrice
  /\ \/ order.type = "limit" /\ order.side = "buy" /\ prices[order.symbol] <= order.price
     \/ order.type = "limit" /\ order.side = "sell" /\ prices[order.symbol] >= order.price
     \/ order.type = "stop" /\ order.side = "buy" /\ prices[order.symbol] >= order.price
     \/ order.type = "stop" /\ order.side = "sell" /\ prices[order.symbol] <= order.price

FillOrder(order, prices) ==
  [order EXCEPT !.status = "filled",
                !.filledPrice = prices[order.symbol] * RateDen,
                !.filledShares = order.shares,
                !.commission = (order.shares * prices[order.symbol]) * RateDen * CommissionNum]

\* The first pass of checkPendingOrders: every open order whose trigger holds is
\* marked filled.
markFilled(ords, open, prices) ==
  [i \in DOMAIN ords |->
     IF InSeq(open, i) /\ shouldFill(ords[i], prices)
     THEN FillOrder(ords[i], prices) ELSE ords[i]]

ordersToFill(ords, open, prices) ==
  SelectSeq(open, LAMBDA i : shouldFill(ords[i], prices))

\* The second pass: executeOrder on each marked order, in list order.
RECURSIVE executeAll(_, _, _)
executeAll(st, ords, ids) ==
  IF ids = <<>> THEN st
  ELSE executeAll(executeOrder(st, ords[Head(ids)]), ords, Tail(ids))

updatePositions(prices) ==
  LET refreshed == [PState EXCEPT !.positions = refreshPositions(positions, prices)]
      marked == markFilled(orders, openOrders, prices)
      toFill == ordersToFill(orders, openOrders, prices)
      st == executeAll(refreshed, marked, toFill)
  IN /\ orders' = marked
     /\ openOrders' = SelectSeq(openOrders, LAMBDA i : ~InSeq(toFill, i))
     /\ cash' = st.cash
     /\ positions' = st.positions
     /\ tradeHistory' = st.tradeHistory
     /\ ret' = [op |-> "updatePositions", result |-> "void"]

\* ------------------------------------------------------------- getState
RECURSIVE SumOver(_, _)
SumOver(S, f) ==
  IF S = {} THEN 0
  ELSE LET x == CHOOSE y \in S : TRUE IN f[x] + SumOver(S \ {x}, f)

\* calculateEquity from shares x currentPrice instead of the stored marketValue.
calculateEquity_FromCurrentPrice ==
  cash + SumOver(DOMAIN positions,
                 [s \in DOMAIN positions |->
                    positions[s].shares * positions[s].currentPrice * RateDen])

calculateEquity ==
  cash + SumOver(DOMAIN positions, [s \in DOMAIN positions |-> positions[s].marketValue * RateDen])

getStateEquity == ToFixed2(calculateEquity)
getStateCash == ToFixed2(cash)

\* What calculateClosedTrades adds up per trade: its shares, trade.total +
\* trade.commission (a buy's cost) or trade.total - trade.commission (a sell's
\* proceeds), in micro.
TradeField(t, field) ==
  CASE field = "shares" -> t.shares
    [] field = "cost" -> t.total * RateDen + t.commission
    [] field = "proceeds" -> t.total * RateDen - t.commission

RECURSIVE SumTrades(_, _, _, _)
\* The sum of the field over the trades of symbol and side in th.
SumTrades(th, symbol, side, field) ==
  IF th = <<>> THEN 0
  ELSE (IF Head(th).symbol = symbol /\ Head(th).side = side
        THEN TradeField(Head(th), field) ELSE 0)
       + SumTrades(Tail(th), symbol, side, field)

buyShares(symbol) == SumTrades(tradeHistory, symbol, "buy", "shares")
sellShares(symbol) == SumTrades(tradeHistory, symbol, "sell", "shares")
buyTotal(symbol) == SumTrades(tradeHistory, symbol, "buy", "cost")
sellTotal(symbol) == SumTrades(tradeHistory, symbol, "sell", "proceeds")

TradedSymbols == {tradeHistory[i].symbol : i \in 1..Len(tradeHistory)}

\* calculateClosedTrades counting every symbol with a sell, closed or not.
calculateClosedTrades_AnySold ==
  {[symbol |-> s, pnl |-> sellTotal(s) - buyTotal(s)] :
     s \in {x \in TradedSymbols : sellShares(x) > 0 /\ buyShares(x) > 0}}

\* The {symbol, pnl} entries calculateClosedTrades returns (one per symbol at
\* most; their order, that of each symbol's first trade, is read by nothing).
calculateClosedTrades ==
  {[symbol |-> s, pnl |-> sellTotal(s) - buyTotal(s)] :
     s \in {x \in TradedSymbols : buyShares(x) = sellShares(x) /\ buyShares(x) > 0}}

winningTrades == {t \in calculateClosedTrades : t.pnl > 0}
losingTrades == {t \in calculateClosedTrades : t.pnl < 0}

\* performance.winRate, in hundredths of a percent (toFixed(2)).
winRate ==
  LET n == Cardinality(calculateClosedTrades)
      w == Cardinality(winningTrades)
  IN IF n = 0 THEN 0 ELSE (w * 10000 * 2 + n) \div (2 * n)

\* ------------------------------------------------------------------ Spec
\* new PaperTradingPortfolio(config)
PortfolioInit ==
  /\ cash = InitialCash * Micro
  /\ positions = <<>>
  /\ orders = <<>>
  /\ openOrders = <<>>
  /\ tradeHistory = <<>>
  /\ ret = [op |-> "constructor", result |-> "void"]

\* No backtest engine exists.
NoEngine ==
  /\ btConfig = <<>>
  /\ btCapital = 0
  /\ btPositions = <<>>
  /\ btTrades = <<>>
  /\ btEquity = <<>>
  /\ btDates = <<>>
  /\ btInput = <<>>
  /\ btRun = [pc |-> "none"]
  /\ btResults = <<>>

\* No exported function is being called.
NoCall ==
  /\ libCall = [fn |-> "none"]
  /\ libReturn = [kind |-> "none"]

Init == PortfolioInit /\ NoEngine /\ NoCall

PriceMaps(syms, prs) == UNION {[D -> prs] : D \in SUBSET syms}
Sides == {"buy", "sell"}

NextOver(ids, syms, prs) ==
  \/ /\ \E s \in syms, side \in Sides, n \in ShareSet, p \in prs :
          placeMarketOrder(ids, s, side, n, p)
     /\ UNCHANGED <<btvars, libvars>>
  \/ /\ \E s \in syms, side \in Sides, n \in PendingShareSet, p \in prs :
          placeLimitOrder(ids, s, side, n, p)
     /\ UNCHANGED <<btvars, libvars>>
  \/ /\ \E s \in syms, side \in Sides, n \in PendingShareSet, p \in prs :
          placeStopOrder(ids, s, side, n, p)
     /\ UNCHANGED <<btvars, libvars>>
  \/ /\ \E id \in 1..(Len(orders) + 1) : cancelOrder(id)
     /\ UNCHANGED <<btvars, libvars>>
  \/ /\ \E prices \in PriceMaps(syms, prs) : updatePositions(prices)
     /\ UNCHANGED <<btvars, libvars>>
  \/ /\ \E s \in syms, p \in prs : closePosition(ids, s, p)
     /\ UNCHANGED <<btvars, libvars>>

Next == NextOver(OrderIds, Symbols, PriceSet)
Spec == Init /\ [][Next]_vars

NextDeep == NextOver(DeepOrderIds, DeepSymbols, DeepPrices)
SpecDeep == Init /\ [][NextDeep]_vars

\* ================================================================ claims
PortfolioUnchanged == UNCHANGED <<cash, positions, orders, openOrders, tradeHistory>>

\* shares x slippage-adjusted price + commission of a market buy, in micro.
BuyCost(n, p) ==
  n * p * (RateDen + SlippageNum) * RateDen + n * p * (RateDen + SlippageNum) * CommissionNum

HeldShares(s) == IF s \in DOMAIN positions THEN positions[s].shares ELSE 0

\* C1: placeMarketOrder never makes cash negative.  From a state with
\* cash >= 0, a buy whose shares x slippage-adjusted price + commission exceeds
\* cash fails with the insufficient-funds error and changes nothing, and every
\* market order that succeeds (buy or sell, positive shares and price) leaves
\* cash >= 0.
C1_MarketOrderKeepsCashNonNegative ==
  [][\A s \in Symbols, side \in Sides, n \in ShareSet, p \in PriceSet :
       (/\ ret'.op = "placeMarketOrder"
        /\ cash >= 0
        /\ placeMarketOrder(OrderIds, s, side, n, p)) =>
         /\ cash' >= 0
         /\ (side = "buy" /\ BuyCost(n, p) > cash) =>
              (ret'.result = "InsufficientCash" /\ PortfolioUnchanged)]_vars

\* A buy was refused for lack of cash after an earlier market order was filled.
C1_Witness ==
  /\ ret = [op |-> "placeMarketOrder", result |-> "InsufficientCash"]
  /\ Len(tradeHistory) > 0
  /\ cash >= 0

\* A market order that fails validation: a buy needing more than the cash, a
\* sell of a symbol with no position or with fewer shares held than requested.
FailsValidation(s, side, n, p) ==
  IF side = "buy" THEN BuyCost(n, p) > cash ELSE HeldShares(s) < n \/ s \notin DOMAIN positions

\* C2: a placeMarketOrder call that fails validation raises an error and leaves
\* cash, positions, openOrders and tradeHistory as they were; a call that passes
\* fills exactly the requested number of shares (no clamping to what is
\* affordable or held).
C2_FailedMarketOrderChangesNothing ==
  [][\A s \in Symbols, side \in Sides, n \in ShareSet, p \in PriceSet :
       (ret'.op = "placeMarketOrder" /\ placeMarketOrder(OrderIds, s, side, n, p)) =>
         IF FailsValidation(s, side, n, p)
         THEN /\ ret'.result \in {"InsufficientCash", "InsufficientShares"}
              /\ PortfolioUnchanged
         ELSE /\ ret'.result = "order"
              /\ Len(tradeHistory') = Len(tradeHistory) + 1
              /\ tradeHistory'[Len(tradeHistory')].shares = n
              /\ tradeHistory'[Len(tradeHistory')].symbol = s
              /\ tradeHistory'[Len(tradeHistory')].side = side]_vars

\* A sell was refused while a position of one share is held.
C2_Witness ==
  /\ ret = [op |-> "placeMarketOrder", result |-> "InsufficientShares"]
  /\ \E s \in DOMAIN positions : positions[s].shares = 1

\* The shares of the buy trades minus the shares of the sell trades of symbol s
\* among the first k trades.
RECURSIVE SignedFills(_, _)
SignedFills(s, k) ==
  IF k = 0 THEN 0
  ELSE SignedFills(s, k - 1)
       + (IF tradeHistory[k].symbol # s THEN 0
          ELSE IF tradeHistory[k].side = "buy" THEN tradeHistory[k].shares
          ELSE -tradeHistory[k].shares)

\* C3: in every reachable state, for every symbol, the shares of its position
\* (0 when it has none) equal the shares bought minus the shares sold in
\* tradeHistory.
C3_SharesAreSumOfFills ==
  \A s \in Symbols : HeldShares(s) = SignedFills(s, Len(tradeHistory))

\* A pending sell was filled by updatePositions against a held position.
C3_Witness ==
  \E i \in 1..Len(tradeHistory) :
    /\ tradeHistory[i].side = "sell"
    /\ orders[tradeHistory[i].id].type \in {"limit", "stop"}
    /\ \E j \in 1..Len(tradeHistory) :
         tradeHistory[j].side = "buy" /\ tradeHistory[j].symbol = tradeHistory[i].symbol

\* C4: every position held has shares > 0.
C4_PositionsHavePositiveShares ==
  \A s \in DOMAIN positions : positions[s].shares > 0

\* cash plus the market value of every position held, in micro.
CashPlusMarketValue ==
  LET mv(s) == IF s \in DOMAIN positions THEN positions[s].marketValue * RateDen ELSE 0
  IN cash + mv("A") + mv("B")

\* C5: the equity getState reports equals cash plus the sum of marketValue over
\* the positions held, up to the rounding to 2 decimals.
C5_EquityIsCashPlusMarketValue ==
  Abs(getStateEquity - CashPlusMarketValue) * 2 <= Micro \div 100

\* Two positions are held, one of them marked to a supplied price, and the
\* rounding changes the reported figure.
C5_Witness ==
  /\ Cardinality(DOMAIN positions) = 2
  /\ ret.op = "updatePositions"
  /\ getStateEquity # CashPlusMarketValue

Triggered(o, prices) ==
  /\ o.symbol \in DOMAIN prices
  /\ CASE o.type = "limit" /\ o.side = "buy" -> prices[o.symbol] <= o.price
       [] o.type = "limit" /\ o.side = "sell" -> prices[o.symbol] >= o.price
       [] o.type = "stop" /\ o.side = "buy" -> prices[o.symbol] >= o.price
       [] o.type = "stop" /\ o.side = "sell" -> prices[o.symbol] <= o.price

RECURSIVE SharesOf(_, _, _)
SharesOf(s, side, k) ==
  IF k = 0 THEN 0
  ELSE SharesOf(s, side, k - 1)
       + (IF tradeHistory[k].symbol = s /\ tradeHistory[k].side = side
          THEN tradeHistory[k].shares ELSE 0)

Bought(s) == SharesOf(s, "buy", Len(tradeHistory))
Sold(s) == SharesOf(s, "sell", Len(tradeHistory))
HasClosedEntry(s) == \E e \in calculateClosedTrades : e.symbol = s

\* C8: win rate and profit factor count closed round-trips only.  A symbol has a
\* P&L entry iff its bought shares equal its sold shares and are > 0; a symbol
\* with an open position (bought > sold) has none, so it is neither a win nor a
\* loss.
C8_OnlyClosedRoundTripsCount ==
  \A s \in Symbols :
    /\ HasClosedEntry(s) <=> (Bought(s) = Sold(s) /\ Bought(s) > 0)
    /\ HeldShares(s) > 0 =>
         /\ Bought(s) > Sold(s)
         /\ ~HasClosedEntry(s)
         /\ ~\E e \in winningTrades \cup losingTrades : e.symbol = s

\* A position is still open after part of it was sold at another price.
C8_Witness ==
  \E s \in DOMAIN positions :
    /\ positions[s].shares > 0
    /\ Sold(s) > 0
    /\ positions[s].marketValue # positions[s].shares * positions[s].currentPrice

\* The state after a full close of symbol s: no position, and one P&L entry,
\* the net sell proceeds minus the net buy cost.
FullyClosed(s) ==
  /\ s \notin DOMAIN positions
  /\ Cardinality({e \in calculateClosedTrades : e.symbol = s}) = 1
  /\ \A e \in calculateClosedTrades : e.symbol = s => e.pnl = sellTotal(s) - buyTotal(s)

\* C9: selling exactly the held shares of a symbol (a market sell of
\* position.shares, or closePosition) removes the symbol from positions and
\* leaves exactly one closed-trade P&L entry for it.
C9_FullCloseRemovesPosition ==
  [][/\ \A s \in DeepSymbols, n \in ShareSet, p \in DeepPrices :
          (/\ ret'.op = "placeMarketOrder"
           /\ s \in DOMAIN positions
           /\ positions[s].shares = n
           /\ placeMarketOrder(DeepOrderIds, s, "sell", n, p)) => FullyClosed(s)'
     /\ \A s \in DeepSymbols, p \in DeepPrices :
          (/\ ret'.op = "closePosition"
           /\ s \in DOMAIN positions
           /\ closePosition(DeepOrderIds, s, p)) => FullyClosed(s)']_vars

\* ===========================================================================
\* BacktestEngine (src/lib/upstox/client.ts)
\*
\* Numbers: signal and candle prices are whole numbers, dates are day
\* numbers.  config.commission and config.slippage are whole multiples of
\* 1/BtDen.  A slipped price and a notional (shares x slipped price) are held
\* in units of 1/BtDen; capital, equity, commission and pnl in units of
\* 1/BtMicro.  On this grid every product of the engine is exact.
\* Not modelled: Trade.pnlPercent, the 'kelly' sizing method, the metrics of
\* the report, candle.open and candle.volume (the engine reads neither), and
\* signals whose stopLoss equals their price (an 'atr' size of Infinity).
\* ===========================================================================

BtInitialCapital == 600     \* config.initialCapital, in whole currency units
MaxRuns == 2                \* calls of run on one engine

BtDen == 100
BtMicro == BtDen * BtDen

BtDates == {1, 2}
CandleCounts == {0, 1, 2}
SignalCounts == {0, 1, 2}

\* high / low / close of a candle: quiet, rising through 110, falling through
\* 90, and crossing both.
CandleShapes ==
  { [high |-> 105, low |-> 95, close |-> 100],
    [high |-> 115, low |-> 95, close |-> 110],
    [high |-> 105, low |-> 85, close |-> 90],
    [high |-> 115, low |-> 85, close |-> 100] }

CandleSet ==
  { [date |-> d, high |-> sh.high, low |-> sh.low, close |-> sh.close] :
      d \in BtDates, sh \in CandleShapes }

SignalKinds ==
  { [type |-> "BUY", price |-> 100, stopLoss |-> 90, target |-> 110],
    [type |-> "SELL", price |-> 100, stopLoss |-> 110, target |-> 90],
    [type |-> "EXIT", price |-> 100, stopLoss |-> NoPrice, target |-> NoPrice] }

SignalSet ==
  { [date |-> d, type |-> k.type, price |-> k.price,
     stopLoss |-> k.stopLoss, target |-> k.target] :
      d \in BtDates, k \in SignalKinds }

\* BacktestConfig.  commission and slippage in 1/BtDen; positionSizeValue is
\* an amount for 'fixed' and a percentage for 'percent'.
BtConfig(sizing, value, maxPositions, commission, slippage) ==
  [initialCapital |-> BtInitialCapital * BtMicro,
   commission |-> commission,
   slippage |-> slippage,
   positionSizing |-> sizing,
   positionSizeValue |-> value,
   maxPositions |-> maxPositions,
   riskPerTrade |-> 5]

BtConfigs ==
  { BtConfig("fixed", 300, 1, 1, 2),
    BtConfig("fixed", 300, 2, 0, 0),
    BtConfig("percent", 50, 2, 1, 2),
    BtConfig("atr", 2, 1, 0, 0),
    BtConfig("atr", 2, 2, 1, 2) }

SeqsOf(S, counts) == UNION {[1..n -> S] : n \in counts}

\* The copy left in input order.
sortByDate_InputOrder(list) == list

\* Array.prototype.sort with the comparator date(a) - date(b): a stable sort.
RECURSIVE sortByDate(_)
sortByDate(list) ==
  IF list = <<>> THEN <<>>
  ELSE LET rest == sortByDate(Tail(list))
           before == SelectSeq(rest, LAMBDA e : e.date < Head(list).date)
           after == SelectSeq(rest, LAMBDA e : e.date >= Head(list).date)
       IN before \o <<Head(list)>> \o after

\* Map.prototype.set: an existing key keeps its place, a new key goes last.
MapSet(map, key, value) ==
  IF \E k \in 1..Len(map) : map[k].key = key
  THEN [k \in 1..Len(map) |-> IF map[k].key = key THEN value ELSE map[k]]
  ELSE Append(map, value)

calculateDaysDiff(date1, date2) == date2 - date1

calculatePositionSize(cfg, capital, price, stopLoss) ==
  CASE cfg.positionSizing = "fixed" ->
         cfg.positionSizeValue \div price
    [] cfg.positionSizing = "percent" ->
         (capital * cfg.positionSizeValue) \div (100 * price * BtMicro)
    [] cfg.positionSizing = "atr" ->
         IF stopLoss = NoPrice THEN 0
         ELSE (capital * cfg.riskPerTrade) \div (100 * Abs(price - stopLoss) * BtMicro)
    [] OTHER -> 0

BtPosition(candle, signal, entryPrice, shares, side) ==
  [key |-> candle.date,
   entryDate |-> candle.date,
   entryPrice |-> entryPrice,
   shares |-> shares,
   stopLoss |-> signal.stopLoss,
   target |-> signal.target,
   side |-> side]

\* es is the engine: [capital, positions, trades].
enterLong(es, cfg, signal, candle) ==
  LET shares == calculatePositionSize(cfg, es.capital, signal.price, signal.stopLoss)
      entryPrice == signal.price * (BtDen + cfg.slippage)
      positionCost == shares * entryPrice
      commission == positionCost * cfg.commission
  IN IF Len(es.positions) >= cfg.maxPositions THEN es
     ELSE IF shares = 0 THEN es
     ELSE IF positionCost * BtDen + commission > es.capital THEN es
     ELSE [es EXCEPT
             !.capital = @ - (positionCost * BtDen + commission),
             !.positions = MapSet(@, candle.date,
                             BtPosition(candle, signal, entryPrice, shares, "long"))]

\* enterShort without the maxPositions test.
enterShort_NoLimit(es, cfg, signal, candle) ==
  LET shares == calculatePositionSize(cfg, es.capital, signal.price, signal.stopLoss)
      entryPrice == signal.price * (BtDen - cfg.slippage)
      positionCost == shares * entryPrice
      commission == positionCost * cfg.commission
  IN IF shares = 0 THEN es
     ELSE IF positionCost * BtDen + commission > es.capital THEN es
     ELSE [es EXCEPT
             !.capital = @ + (positionCost * BtDen - commission),
             !.positions = MapSet(@, candle.date,
                             BtPosition(candle, signal, entryPrice, shares, "short"))]

enterShort(es, cfg, signal, candle) ==
  LET shares == calculatePositionSize(cfg, es.capital, signal.price, signal.stopLoss)
      entryPrice == signal.price * (BtDen - cfg.slippage)
      positionCost == shares * entryPrice
      commission == positionCost * cfg.commission
  IN IF Len(es.positions) >= cfg.maxPositions THEN es
     ELSE IF shares = 0 THEN es
     ELSE IF positionCost * BtDen + commission > es.capital THEN es
     ELSE [es EXCEPT
             !.capital = @ + (positionCost * BtDen - commission),
             !.positions = MapSet(@, candle.date,
                             BtPosition(candle, signal, entryPrice, shares, "short"))]

\* closePosition with the exit slippage in the trader's favour.
BtClosePosition_SlipInFavour(es, cfg, position, exitPrice, exitDate, exitReason) ==
  LET actualExitPrice == IF position.side = "long"
                         THEN exitPrice * (BtDen + cfg.slippage)
                         ELSE exitPrice * (BtDen - cfg.slippage)
      proceeds == position.shares * actualExitPrice
      commission == proceeds * cfg.commission
      cost == position.shares * position.entryPrice
      pnl == IF position.side = "long"
             THEN (proceeds - cost) * BtDen - commission * 2
             ELSE (cost - proceeds) * BtDen - commission * 2
      capital == IF position.side = "long"
                 THEN es.capital + (proceeds * BtDen - commission)
                 ELSE es.capital - (proceeds * BtDen + commission)
  IN [es EXCEPT
        !.capital = capital,
        !.trades = Append(@, [entryDate |-> position.entryDate,
                              entryPrice |-> position.entryPrice,
                              exitDate |-> exitDate,
                              exitPrice |-> actualExitPrice,
                              shares |-> position.shares,
                              side |-> position.side,
                              pnl |-> pnl,
                              commission |-> commission * 2,
                              holdingPeriod |-> calculateDaysDiff(position.entryDate, exitDate),
                              exitReason |-> exitReason])]

\* closePosition(key, exitPrice, exitDate, exitReason) for the position
\* stored under key; the position stays in the map.
BtClosePosition(es, cfg, position, exitPrice, exitDate, exitReason) ==
  LET actualExitPrice == IF position.side = "long"
                         THEN exitPrice * (BtDen - cfg.slippage)
                         ELSE exitPrice * (BtDen + cfg.slippage)
      proceeds == position.shares * actualExitPrice
      commission == proceeds * cfg.commission
      cost == position.shares * position.entryPrice
      pnl == IF position.side = "long"
             THEN (proceeds - cost) * BtDen - commission * 2
             ELSE (cost - proceeds) * BtDen - commission * 2
      capital == IF position.side = "long"
                 THEN es.capital + (proceeds * BtDen - commission)
                 ELSE es.capital - (proceeds * BtDen + commission)
  IN [es EXCEPT
        !.capital = capital,
        !.trades = Append(@, [entryDate |-> position.entryDate,
                              entryPrice |-> position.entryPrice,
                              exitDate |-> exitDate,
                              exitPrice |-> actualExitPrice,
                              shares |-> position.shares,
                              side |-> position.side,
                              pnl |-> pnl,
                              commission |-> commission * 2,
                              holdingPeriod |-> calculateDaysDiff(position.entryDate, exitDate),
                              exitReason |-> exitReason])]

\* exitOf with the target tested before the stop.
exitOf_TargetFirst(position, candle) ==
  IF position.side = "long"
  THEN IF position.target # NoPrice /\ candle.high >= position.target THEN "target"
       ELSE IF position.stopLoss # NoPrice /\ candle.low <= position.stopLoss THEN "stop"
       ELSE "keep"
  ELSE IF position.target # NoPrice /\ candle.low <= position.target THEN "target"
       ELSE IF position.stopLoss # NoPrice /\ candle.high >= position.stopLoss THEN "stop"
       ELSE "keep"

\* What checkExits does with one position: "stop", "target" or "keep".
exitOf(position, candle) ==
  IF position.side = "long"
  THEN IF position.stopLoss # NoPrice /\ candle.low <= position.stopLoss THEN "stop"
       ELSE IF position.target # NoPrice /\ candle.high >= position.target THEN "target"
       ELSE "keep"
  ELSE IF position.stopLoss # NoPrice /\ candle.high >= position.stopLoss THEN "stop"
       ELSE IF position.target # NoPrice /\ candle.low <= position.target THEN "target"
       ELSE "keep"

\* The forEach of checkExits over positions k..Len, in insertion order.
RECURSIVE closeExits(_, _, _, _)
closeExits(es, cfg, candle, k) ==
  IF k > Len(es.positions) THEN es
  ELSE LET position == es.positions[k]
           reason == exitOf(position, candle)
           price == IF reason = "stop" THEN position.stopLoss ELSE position.target
       IN closeExits(IF reason = "keep" THEN es
                     ELSE BtClosePosition(es, cfg, position, price, candle.date, reason),
                     cfg, candle, k + 1)

checkExits(es, cfg, candle) ==
  LET closed == closeExits(es, cfg, candle, 1)
  IN [closed EXCEPT
        !.positions = SelectSeq(@, LAMBDA position : exitOf(position, candle) = "keep")]

RECURSIVE closeAll(_, _, _, _, _)
closeAll(es, cfg, candle, exitReason, k) ==
  IF k > Len(es.positions) THEN es
  ELSE closeAll(BtClosePosition(es, cfg, es.positions[k], candle.close, candle.date, exitReason),
                cfg, candle, exitReason, k + 1)

exitAllPositions(es, cfg, candle, exitReason) ==
  [closeAll(es, cfg, candle, exitReason, 1) EXCEPT !.positions = <<>>]

\* processSignal followed at once by a stop / target check of the candle.
processSignal_CheckedAtOnce(es, cfg, signal, candle) ==
  checkExits(IF signal.type = "BUY" THEN enterLong(es, cfg, signal, candle)
             ELSE IF signal.type = "SELL" THEN enterShort(es, cfg, signal, candle)
             ELSE IF signal.type = "EXIT" THEN exitAllPositions(es, cfg, candle, "signal")
             ELSE es,
             cfg, candle)

processSignal(es, cfg, signal, candle) ==
  IF signal.type = "BUY" THEN enterLong(es, cfg, signal, candle)
  ELSE IF signal.type = "SELL" THEN enterShort(es, cfg, signal, candle)
  ELSE IF signal.type = "EXIT" THEN exitAllPositions(es, cfg, candle, "signal")
  ELSE es

RECURSIVE positionValueFrom(_, _, _)
positionValueFrom(map, currentPrice, k) ==
  IF k > Len(map) THEN 0
  ELSE (IF map[k].side = "long"
        THEN map[k].shares * currentPrice * BtMicro
        ELSE map[k].shares * (2 * map[k].entryPrice - currentPrice * BtDen) * BtDen)
       + positionValueFrom(map, currentPrice, k + 1)

calculatePositionValue(map, currentPrice) == positionValueFrom(map, currentPrice, 1)

engine == [capital |-> btCapital, positions |-> btPositions, trades |-> btTrades]

SetEngine(es) ==
  /\ btCapital' = es.capital
  /\ btPositions' = es.positions
  /\ btTrades' = es.trades

\* The locals of run before its first call.
NotRunning ==
  [pc |-> "idle", sortedData |-> <<>>, sortedSignals |-> <<>>,
   i |-> 1, signalIndex |-> 1, runs |-> 0]

\* new BacktestEngine(config)
BacktestEngine_constructor(config) ==
  /\ btConfig = config
  /\ btCapital = config.initialCapital
  /\ btPositions = <<>>
  /\ btTrades = <<>>
  /\ btEquity = <<config.initialCapital>>
  /\ btDates = <<>>

\* run, entry: the two sorted copies, signalIndex = 0, i = 0.  The call is
\* made on a new engine or on one whose earlier run has returned; the
\* arguments are those of btInput.
run_sort ==
  /\ btRun.pc \in {"idle", "done"}
  /\ btRun.runs < MaxRuns
  /\ btRun' = [pc |-> "for",
               sortedData |-> sortByDate(btInput.historicalData),
               sortedSignals |-> sortByDate(btInput.signals),
               i |-> 1,
               signalIndex |-> 1,
               runs |-> btRun.runs + 1]
  /\ UNCHANGED <<btConfig, btCapital, btPositions, btTrades, btEquity, btDates, btInput, btResults>>
  /\ UNCHANGED <<pvars, libvars>>

candle == btRun.sortedData[btRun.i]

\* run, loop head: dates.push(candle.date); checkExits(candle).
run_checkExits ==
  /\ btRun.pc = "for"
  /\ btRun.i <= Len(btRun.sortedData)
  /\ btDates' = Append(btDates, candle.date)
  /\ SetEngine(checkExits(engine, btConfig, candle))
  /\ btRun' = [btRun EXCEPT !.pc = "while"]
  /\ UNCHANGED <<btConfig, btEquity, btInput, btResults>>
  /\ UNCHANGED <<pvars, libvars>>

signalDue ==
  /\ btRun.signalIndex <= Len(btRun.sortedSignals)
  /\ btRun.sortedSignals[btRun.signalIndex].date <= candle.date

\* run, one turn of the while loop: processSignal(signal, candle); signalIndex++.
run_processSignal ==
  /\ btRun.pc = "while"
  /\ signalDue
  /\ SetEngine(processSignal(engine, btConfig, btRun.sortedSignals[btRun.signalIndex], candle))
  /\ btRun' = [btRun EXCEPT !.signalIndex = @ + 1]
  /\ UNCHANGED <<btConfig, btEquity, btDates, btInput, btResults>>
  /\ UNCHANGED <<pvars, libvars>>

\* run, loop tail: equity.push(capital + calculatePositionValue(candle.close)); i++.
run_recordEquity ==
  /\ btRun.pc = "while"
  /\ ~signalDue
  /\ btEquity' = Append(btEquity, btCapital + calculatePositionValue(btPositions, candle.close))
  /\ btRun' = [btRun EXCEPT !.pc = "for", !.i = @ + 1]
  /\ UNCHANGED <<btConfig, btCapital, btPositions, btTrades, btDates, btInput, btResults>>
  /\ UNCHANGED <<pvars, libvars>>

\* The BacktestResult generateReport builds: the engine's own arrays.
result == [trades |-> btTrades, equity |-> btEquity, dates |-> btDates]

\* run, exit: return this.generateReport().
run_generateReport ==
  /\ btRun.pc = "for"
  /\ btRun.i > Len(btRun.sortedData)
  /\ btRun' = [btRun EXCEPT !.pc = "done"]
  /\ btResults' = Append(btResults, result)
  /\ UNCHANGED <<btConfig, btCapital, btPositions, btTrades, btEquity, btDates, btInput>>
  /\ UNCHANGED <<pvars, libvars>>

\* No portfolio exists.
NoPortfolio ==
  /\ cash = 0
  /\ positions = <<>>
  /\ orders = <<>>
  /\ openOrders = <<>>
  /\ tradeHistory = <<>>
  /\ ret = [op |-> "none", result |-> "void"]

InitBT ==
  /\ NoPortfolio
  /\ NoCall
  /\ \E config \in BtConfigs : BacktestEngine_constructor(config)
  /\ btInput \in [historicalData : SeqsOf(CandleSet, CandleCounts),
                  signals : SeqsOf(SignalSet, SignalCounts)]
  /\ btRun = NotRunning
  /\ btResults = <<>>

NextBT ==
  \/ run_sort
  \/ run_checkExits
  \/ run_processSignal
  \/ run_recordEquity
  \/ run_generateReport

SpecBT == InitBT /\ [][NextBT]_vars

\* ---------------------------------------------------------------------------
\* Claims about the BacktestEngine
\* ---------------------------------------------------------------------------

\* C10: the result returned by run for n candles has an equity curve of
\* n + 1 points, the first being the configured initial capital, and a dates
\* axis of n entries.
C10_EquityCurveHasOnePointPerCandlePlusSeed ==
  btRun.pc = "done" =>
    /\ Len(result.equity) = Len(btInput.historicalData) + 1
    /\ result.equity[1] = btConfig.initialCapital
    /\ Len(result.dates) = Len(btInput.historicalData)

\* The signal the while loop of run is about to process.
signal == btRun.sortedSignals[btRun.signalIndex]

\* C11: at every step of a run at most config.maxPositions positions are
\* open; a BUY or SELL signal processed while the limit is reached opens
\* nothing, changes no capital and records no trade, and it is consumed:
\* signalIndex moves past it and never moves back during the run, so no later
\* candle sees it again.
C11_MaxPositionsDropsExcessSignals ==
  /\ [](Len(btPositions) <= btConfig.maxPositions)
  /\ [][/\ (/\ btRun.pc = "while"
            /\ signalDue
            /\ signal.type \in {"BUY", "SELL"}
            /\ Len(btPositions) >= btConfig.maxPositions)
           => /\ btPositions' = btPositions
              /\ btCapital' = btCapital
              /\ btTrades' = btTrades
              /\ btRun'.signalIndex = btRun.signalIndex + 1
        /\ btRun'.runs = btRun.runs => btRun'.signalIndex >= btRun.signalIndex]_vars

\* With maxPositions = 1, a BUY then a SELL were due on the first candle of
\* the first run: the BUY opened the long that is still open, the SELL was
\* dropped.
C11_Witness ==
  /\ btRun.pc = "while"
  /\ btRun.runs = 1
  /\ btRun.i = 1
  /\ btRun.signalIndex = 3
  /\ btRun.sortedSignals[1].type = "BUY"
  /\ btRun.sortedSignals[2].type = "SELL"
  /\ btConfig.maxPositions = 1
  /\ Len(btPositions) = 1
  /\ btPositions[1].side = "long"
  /\ btTrades = <<>>

\* The candle c breaches both the stop-loss and the target of position p.
breachesBoth(p, c) ==
  /\ p.stopLoss # NoPrice
  /\ p.target # NoPrice
  /\ IF p.side = "long"
     THEN c.low <= p.stopLoss /\ c.high >= p.target
     ELSE c.high >= p.stopLoss /\ c.low <= p.target

\* The trades appended by the step, as a set of indices of btTrades'.
newTrades == (Len(btTrades) + 1)..Len(btTrades')

\* The stop price of p after exit slippage.
slippedStop(p) ==
  p.stopLoss * (IF p.side = "long" THEN BtDen - btConfig.slippage
                ELSE BtDen + btConfig.slippage)

\* C12: when the candle given to checkExits breaches both the stop-loss and
\* the target of an open position, that position leaves the map and exactly
\* one trade is recorded for it, with exitReason 'stop', on that candle's
\* date, at the stop price (after exit slippage); no 'target' trade is
\* recorded for it.
C12_StopWinsOverTarget ==
  [][(btRun.pc = "for" /\ btRun.i <= Len(btRun.sortedData)) =>
       \A k \in 1..Len(btPositions) :
         breachesBoth(btPositions[k], candle) =>
           /\ \A j \in 1..Len(btPositions') : btPositions'[j].key # btPositions[k].key
           /\ Cardinality({t \in newTrades :
                             btTrades'[t].entryDate = btPositions[k].entryDate}) = 1
           /\ \A t \in newTrades :
                btTrades'[t].entryDate = btPositions[k].entryDate =>
                  /\ btTrades'[t].exitReason = "stop"
                  /\ btTrades'[t].exitPrice = slippedStop(btPositions[k])
                  /\ btTrades'[t].exitDate = candle.date
                  /\ btTrades'[t].side = btPositions[k].side
                  /\ btTrades'[t].shares = btPositions[k].shares]_vars

\* First run: the first candle was quiet, the second crosses both 90 and 110,
\* and checkExits has just recorded the only trade, a stop.
C12_Witness ==
  /\ btRun.pc = "while"
  /\ btRun.runs = 1
  /\ btRun.i = 2
  /\ btRun.sortedData[1].high < 110
  /\ btRun.sortedData[1].low > 90
  /\ candle.high >= 110
  /\ candle.low <= 90
  /\ Len(btTrades) = 1
  /\ btTrades[1].exitReason = "stop"
  /\ btTrades[1].exitDate = candle.date
  /\ btPositions = <<>>

\* The position open before the step under the key entryDate.
openedOn(entryDate) ==
  btPositions[CHOOSE k \in 1..Len(btPositions) : btPositions[k].key = entryDate]

\* The un-slipped price at which the step closes position p as trade tr: its
\* stop or its target in checkExits, the candle's close on an EXIT signal.
triggerPrice(p, tr) ==
  IF btRun.pc = "for"
  THEN IF tr.exitReason = "stop" THEN p.stopLoss ELSE p.target
  ELSE candle.close

\* C13: slippage moves every fill against the trader.  A position opened by
\* a BUY has entryPrice = signal.price x (1 + slippage), one opened by a SELL
\* signal.price x (1 - slippage); a trade closing a long has exitPrice =
\* trigger x (1 - slippage), one closing a short trigger x (1 + slippage);
\* the trade keeps the position's entry price.  So a long never enters below
\* or exits above the un-slipped price, and a short never enters above or
\* exits below it.
C13_SlippageAgainstTrader ==
  [][/\ (/\ btRun.pc = "while"
         /\ signalDue
         /\ signal.type \in {"BUY", "SELL"}
         /\ btCapital' # btCapital)
        => \E j \in 1..Len(btPositions') :
             /\ btPositions'[j].key = candle.date
             /\ IF signal.type = "BUY"
                THEN /\ btPositions'[j].side = "long"
                     /\ btPositions'[j].entryPrice = signal.price * (BtDen + btConfig.slippage)
                     /\ btPositions'[j].entryPrice >= signal.price * BtDen
                ELSE /\ btPositions'[j].side = "short"
                     /\ btPositions'[j].entryPrice = signal.price * (BtDen - btConfig.slippage)
                     /\ btPositions'[j].entryPrice <= signal.price * BtDen
     /\ \A t \in newTrades :
          LET tr == btTrades'[t]
              p == openedOn(tr.entryDate)
              trigger == triggerPrice(p, tr)
          IN /\ tr.side = p.side
             /\ tr.entryPrice = p.entryPrice
             /\ IF p.side = "long"
                THEN /\ tr.exitPrice = trigger * (BtDen - btConfig.slippage)
                     /\ tr.exitPrice <= trigger * BtDen
                ELSE /\ tr.exitPrice = trigger * (BtDen + btConfig.slippage)
                     /\ tr.exitPrice >= trigger * BtDen]_vars

\* With slippage > 0: a short has been closed above its trigger price and a
\* long, entered above its signal price, is open.
C13_Witness ==
  /\ btConfig.slippage > 0
  /\ \E t \in 1..Len(btTrades) :
       /\ btTrades[t].side = "short"
       /\ btTrades[t].exitReason = "stop"
       /\ btTrades[t].exitPrice > btTrades[t].entryPrice
  /\ \E k \in 1..Len(btPositions) :
       /\ btPositions[k].side = "long"
       /\ \E s \in 1..Len(btRun.sortedSignals) :
            /\ btRun.sortedSignals[s].type = "BUY"
            /\ btPositions[k].entryPrice > btRun.sortedSignals[s].price * BtDen

\* The change of capital made by the entry of position p (config rates).
entryCapitalChange(p) ==
  LET notional == p.shares * p.entryPrice
  IN IF p.side = "long"
     THEN -(notional * BtDen + notional * btConfig.commission)
     ELSE notional * BtDen - notional * btConfig.commission

\* C14: every trade the engine records carries commission = rate x entry
\* notional + rate x exit notional, and pnl = the change of capital made by
\* the position's entry plus the change made by its exit (here read off the
\* step that closes exactly that one position).
C14_TradeCommissionAndPnlMatchCapital ==
  [][\A t \in newTrades :
       LET tr == btTrades'[t]
           p == openedOn(tr.entryDate)
       IN /\ tr.commission = (tr.shares * tr.entryPrice + tr.shares * tr.exitPrice)
                               * btConfig.commission
          /\ Len(btTrades') = Len(btTrades) + 1
               => tr.pnl = entryCapitalChange(p) + (btCapital' - btCapital)]_vars

\* ===========================================================================
\* Position sizing (src/lib/portfolio/position-sizing.ts)
\*
\* Numbers: accountSize, price, riskPercent, atr, atrMultiplier, volatility
\* and confidence are whole numbers; winRate and fractionalKelly are whole
\* multiples of 1/PsCent, avgWinLossRatio of 1/PsTenth.  Every quotient the
\* code floors is kept as numerator and denominator, so Math.floor is exact.
\* A JavaScript number that may be NaN or infinite is a record:
\* [kind |-> "num", v], [kind |-> "inf", v |-> 1 or -1] or [kind |-> "nan"].
\* Not modelled: the riskAmount, confidence and method fields of
\* PositionSizeResult, fixedDollarSize, riskParitySize, checkPortfolioHeat,
\* and NaN or infinite arguments.
\* ===========================================================================

PsCent == 100     \* x / 100: percentages, winRate and fractionalKelly grid
PsTenth == 10     \* avgWinLossRatio grid

JsNum(n) == [kind |-> "num", v |-> n]
JsInfinity == [kind |-> "inf", v |-> 1]
JsNegInfinity == [kind |-> "inf", v |-> -1]
JsNaN == [kind |-> "nan", v |-> 0]

\* a / b on numbers: the sign of an infinite quotient, NaN for 0 / 0.
\* The finite case is left to the caller, which floors it.
JsDivByZero(a) ==
  IF a > 0 THEN JsInfinity ELSE IF a < 0 THEN JsNegInfinity ELSE JsNaN

\* Math.floor(a / b) for whole a and b.
JsFloorDiv(a, b) ==
  IF b = 0 THEN JsDivByZero(a)
  ELSE IF b > 0 THEN JsNum(a \div b)
  ELSE JsNum((-a) \div (-b))

\* x < y on JavaScript numbers.
JsLess(x, y) ==
  IF x.kind = "nan" \/ y.kind = "nan" THEN FALSE
  ELSE IF x.kind = "inf" THEN x.v < 0 /\ ~(y.kind = "inf" /\ y.v < 0)
  ELSE IF y.kind = "inf" THEN y.v > 0
  ELSE x.v < y.v

\* x <= y on JavaScript numbers.
JsLessEq(x, y) ==
  IF x.kind = "nan" \/ y.kind = "nan" THEN FALSE
  ELSE JsLess(x, y) \/ x = y

\* x * n for a whole n.
JsTimes(x, n) ==
  IF x.kind = "nan" THEN JsNaN
  ELSE IF x.kind = "inf"
       THEN IF n = 0 THEN JsNaN ELSE IF n > 0 THEN x ELSE [kind |-> "inf", v |-> -x.v]
  ELSE JsNum(x.v * n)

PositionSizeResult(shares, price, method) ==
  [shares |-> shares, dollarAmount |-> JsTimes(shares, price), method |-> method]

fixedPercentSize(accountSize, percent, price) ==
  PositionSizeResult(JsFloorDiv(accountSize * percent, PsCent * price),
                     price, "fixed_percent")

\* kelly after Math.max(0, Math.min(kelly, 0.5)), as [kind, n, d] = n / d.
\* p = winRate = w / PsCent, b = avgWinLossRatio = r / PsTenth:
\* (b * p - q) / b = (r * w - PsTenth * (PsCent - w)) / (PsCent * r).
kellyFraction(w, r) ==
  LET n == r * w - PsTenth * (PsCent - w)
      d == PsCent * r
  IN IF d = 0 /\ n = 0 THEN [kind |-> "nan", n |-> 0, d |-> 1]
     ELSE IF d = 0 /\ n > 0 THEN [kind |-> "num", n |-> 1, d |-> 2]
     ELSE IF d = 0 THEN [kind |-> "num", n |-> 0, d |-> 1]
     ELSE IF (d > 0 /\ n <= 0) \/ (d < 0 /\ n >= 0) THEN [kind |-> "num", n |-> 0, d |-> 1]
     ELSE IF 2 * Abs(n) >= Abs(d) THEN [kind |-> "num", n |-> 1, d |-> 2]
     ELSE [kind |-> "num", n |-> Abs(n), d |-> Abs(d)]

\* fractionalKelly = f / PsCent.
kellySize(accountSize, price, p, b, fractionalKelly) ==
  LET kelly == kellyFraction(p, b)
  IN IF kelly.kind = "nan"
     THEN PositionSizeResult(JsNaN, price, "kelly_criterion")
     ELSE PositionSizeResult(
            JsFloorDiv(accountSize * kelly.n * fractionalKelly, kelly.d * PsCent * price),
            price, "kelly_criterion")

atrBasedSize(accountSize, riskPercent, entryPrice, atr, atrMultiplier) ==
  PositionSizeResult(JsFloorDiv(accountSize * riskPercent, PsCent * atr * atrMultiplier),
                     entryPrice, "atr_based")

\* finalPercent = Math.max(0.5, Math.min(basePercent * (target / current), 50))
\* as n / d.
finalPercent(basePercent, currentVolatility, targetVolatility) ==
  LET a == basePercent * targetVolatility
  IN IF currentVolatility = 0
     THEN IF a > 0 THEN [n |-> 50, d |-> 1] ELSE [n |-> 1, d |-> 2]
     ELSE IF currentVolatility < 0
          THEN IF a >= 0 THEN [n |-> 1, d |-> 2]
               ELSE IF -a >= 50 * (-currentVolatility) THEN [n |-> 50, d |-> 1]
               ELSE IF 2 * (-a) <= -currentVolatility THEN [n |-> 1, d |-> 2]
               ELSE [n |-> -a, d |-> -currentVolatility]
     ELSE IF a >= 50 * currentVolatility THEN [n |-> 50, d |-> 1]
     ELSE IF 2 * a <= currentVolatility THEN [n |-> 1, d |-> 2]
     ELSE [n |-> a, d |-> currentVolatility]

volatilityAdjustedSize(accountSize, basePercent, price, currentVolatility, targetVolatility) ==
  LET fp == finalPercent(basePercent, currentVolatility, targetVolatility)
  IN PositionSizeResult(JsFloorDiv(accountSize * fp.n, fp.d * PsCent * price),
                        price, "volatility_adjusted")

\* scaledPercent = basePercent + (confidence / 100) * (maxPercent - basePercent)
confidenceBasedSize(accountSize, price, confidence, basePercent, maxPercent) ==
  PositionSizeResult(
    JsFloorDiv(accountSize * (basePercent * PsCent + confidence * (maxPercent - basePercent)),
               PsCent * PsCent * price),
    price, "confidence_based")

\* An optional property of params: absent (undefined) or a number.
Absent == [given |-> FALSE, v |-> 0]
Given(n) == [given |-> TRUE, v |-> n]
Opt(values) == {Absent} \cup {Given(n) : n \in values}

\* if (x): undefined and 0 are falsy.
Truthy(x) == x.given /\ x.v # 0

\* A default parameter value: used when the argument is undefined.
OrDefault(x, default) == IF x.given THEN x.v ELSE default

\* results.reduce((min, current) => current.shares < min.shares ? current : min)
RECURSIVE reduceMin(_, _, _)
reduceMin(results, min, k) ==
  IF k > Len(results) THEN min
  ELSE reduceMin(results,
                 IF JsLess(results[k].shares, min.shares) THEN results[k] ELSE min,
                 k + 1)

calculateOptimalSize(accountSize, price, params) ==
  LET byAtr == IF Truthy(params.atr) /\ Truthy(params.riskPercent)
               THEN <<atrBasedSize(accountSize, params.riskPercent.v, price,
                                   params.atr.v, OrDefault(params.atrMultiplier, 2))>>
               ELSE <<>>
      byKelly == IF Truthy(params.winRate) /\ Truthy(params.avgWinLossRatio)
                 THEN <<kellySize(accountSize, price, params.winRate.v,
                                  params.avgWinLossRatio.v, 25)>>
                 ELSE <<>>
      byVolatility == IF Truthy(params.volatility)
                      THEN <<volatilityAdjustedSize(accountSize, 10, price,
                                                    params.volatility.v, 15)>>
                      ELSE <<>>
      byConfidence == IF Truthy(params.confidence)
                      THEN <<confidenceBasedSize(accountSize, price,
                                                 params.confidence.v, 5, 20)>>
                      ELSE <<>>
      specialized == byAtr \o byKelly \o byVolatility \o byConfidence
      results == IF Len(specialized) = 0
                 THEN <<fixedPercentSize(accountSize, 5, price)>>
                 ELSE specialized
  IN reduceMin(results, results[1], 2)

\* ------------------------------------------------------ calls and their inputs
PsAccountSize == 10000
PsPrice == 100

PsParams ==
  [riskPercent : Opt({0, 2}),
   atr : Opt({0, 2}),
   atrMultiplier : Opt({3}),
   winRate : Opt({0, 50, 100}),
   avgWinLossRatio : Opt({0, 10, 30}),
   volatility : Opt({0, 15, 30}),
   confidence : Opt({0, 100})]

OptimalSizeCalls ==
  [fn : {"calculateOptimalSize"}, accountSize : {PsAccountSize}, price : {PsPrice},
   params : PsParams]

KellyWinRates == {0, 25, 50, 75, 100}
KellyRatios == {0, 5, 10, 20, 30}
KellyFractions == {25, 50, 100}

KellySizeCalls ==
  [fn : {"kellySize"}, accountSize : {PsAccountSize}, price : {PsPrice},
   winRate : KellyWinRates, avgWinLossRatio : KellyRatios,
   fractionalKelly : KellyFractions]

NotReturned == [kind |-> "none"]
Returned(value) == [kind |-> "return", value |-> value]

call_calculateOptimalSize ==
  /\ libCall.fn = "calculateOptimalSize"
  /\ libReturn = NotReturned
  /\ libReturn' = Returned(calculateOptimalSize(libCall.accountSize, libCall.price,
                                                libCall.params))
  /\ UNCHANGED <<libCall, pvars, btvars>>

call_kellySize ==
  /\ libCall.fn = "kellySize"
  /\ libReturn = NotReturned
  /\ libReturn' = Returned(kellySize(libCall.accountSize, libCall.price, libCall.winRate,
                                     libCall.avgWinLossRatio, libCall.fractionalKelly))
  /\ UNCHANGED <<libCall, pvars, btvars>>

InitPS ==
  /\ NoPortfolio
  /\ NoEngine
  /\ libCall \in OptimalSizeCalls \cup KellySizeCalls
  /\ libReturn = NotReturned

NextPS ==
  \/ call_calculateOptimalSize
  \/ call_kellySize

SpecPS == InitPS /\ [][NextPS]_vars

\* ---------------------------------------------------------------------------
\* Claims about position sizing
\* ---------------------------------------------------------------------------

\* The shares of each individual method whose required parameters are
\* supplied in params, computed from the same accountSize, price and params.
suppliedMethodShares(accountSize, price, params) ==
  (IF params.atr.given /\ params.riskPercent.given
   THEN {atrBasedSize(accountSize, params.riskPercent.v, price, params.atr.v,
                      OrDefault(params.atrMultiplier, 2)).shares}
   ELSE {})
  \cup
  (IF params.winRate.given /\ params.avgWinLossRatio.given
   THEN {kellySize(accountSize, price, params.winRate.v,
                   params.avgWinLossRatio.v, 25).shares}
   ELSE {})
  \cup
  (IF params.volatility.given
   THEN {volatilityAdjustedSize(accountSize, 10, price, params.volatility.v, 15).shares}
   ELSE {})
  \cup
  (IF params.confidence.given
   THEN {confidenceBasedSize(accountSize, price, params.confidence.v, 5, 20).shares}
   ELSE {})

\* C15: the shares returned by calculateOptimalSize are <= the shares of
\* every individual method whose required parameters are supplied in params
\* (with any numeric value, 0 included); when no method's parameters are
\* supplied the result is fixedPercentSize at 5%.
C15_OptimalSizeIsSmallestOfSuppliedMethods ==
  (libCall.fn = "calculateOptimalSize" /\ libReturn.kind = "return") =>
    LET methods == suppliedMethodShares(libCall.accountSize, libCall.price, libCall.params)
    IN /\ \A shares \in methods : JsLessEq(libReturn.value.shares, shares)
       /\ methods = {} =>
            libReturn.value = fixedPercentSize(libCall.accountSize, 5, libCall.price)

\* C16: for every winRate in [0, 1] and every avgWinLossRatio >= 0 the Kelly
\* fraction kellySize multiplies by fractionalKelly is a number in [0, 0.5],
\* so the returned shares are >= 0 and the returned dollarAmount is
\* <= accountSize x 0.5 x fractionalKelly.
C16_KellyIsClamped ==
  (libCall.fn = "kellySize" /\ libReturn.kind = "return") =>
    LET kelly == kellyFraction(libCall.winRate, libCall.avgWinLossRatio)
    IN /\ kelly.kind = "num"
       /\ kelly.n >= 0
       /\ 2 * kelly.n <= kelly.d
       /\ JsLessEq(JsNum(0), libReturn.value.shares)
       /\ JsLessEq(JsTimes(libReturn.value.dollarAmount, 2 * PsCent),
                   JsNum(libCall.accountSize * libCall.fractionalKelly))

\* ===========================================================================
\* Signal generation (src/lib/strategies/comprehensive.ts, signals.ts)
\*
\* The indicator library is not modelled: what calculateRSI, calculateMACD,
\* calculateBollingerBands, calculateADX / getADXSignal, calculateATR,
\* getStochasticSignal, calculateVWAP, calculateSuperTrend,
\* calculateIchimoku, calculateParabolicSAR, getVolumeSignal, getRSISignal,
\* getMACDSignal and calculateRiskScore return for the series is part of the
\* call, drawn from sets that take every branch of the generator.
\* Numbers: a price is a whole number of 1/SgUnit; atr is a multiple of
\* SgCent, as calculateATR returns it; percentB is in hundredths; scores of
\* generateComprehensiveSignal are whole points, scores and confidence of
\* generateSignal are in hundredths of a point.
\* Not modelled: reasons, the echoed indicators and riskScore, and the
\* recommendation of generateComprehensiveSignal.
\* ===========================================================================

SgUnit == 100000
SgCent == SgUnit \div 100

\* Number(x.toFixed(2)) of a price: the nearest multiple of 0.01.
PriceToFixed2(x) ==
  LET n == (Abs(x) * 2 + SgCent) \div (2 * SgCent)
  IN IF x < 0 THEN -(n * SgCent) ELSE n * SgCent

\* a / b rounded to the nearest whole number, b # 0.
RoundDiv(a, b) ==
  LET n == (2 * Abs(a) + Abs(b)) \div (2 * Abs(b))
  IN IF (a < 0) # (b < 0) THEN -n ELSE n

calculateATRStopLoss_Unrounded(entryPrice, atr, multiplier, direction) ==
  IF direction = "long"
  THEN entryPrice - atr * multiplier
  ELSE entryPrice + atr * multiplier

\* calculateATRStopLoss(entryPrice, atr, multiplier, direction)
calculateATRStopLoss(entryPrice, atr, multiplier, direction) ==
  IF direction = "long"
  THEN PriceToFixed2(entryPrice - atr * multiplier)
  ELSE PriceToFixed2(entryPrice + atr * multiplier)

\* getRiskRecommendation(riskScore).stopLossPercent
stopLossPercent(level) ==
  IF level = "LOW" THEN 3
  ELSE IF level = "MEDIUM" THEN 5
  ELSE IF level = "HIGH" THEN 7
  ELSE 10

\* The contribution of a BUY / SELL / HOLD vote of the given weight.
signalVote(sig, weight) ==
  IF sig = "BUY" THEN weight ELSE IF sig = "SELL" THEN -weight ELSE 0

\* confidenceScore of generateComprehensiveSignal for the indicator values in.
comprehensiveScore(in) ==
    (IF in.rsi < 30 THEN 10
     ELSE IF in.rsi > 70 THEN -10
     ELSE IF in.rsi >= 50 /\ in.rsi <= 60 THEN 5 ELSE 0)
  + (IF in.macdHistogram > 0 THEN 15 ELSE -15)
  + (IF in.percentB < 20 THEN 10 ELSE IF in.percentB > 80 THEN -10 ELSE 0)
  + (IF in.adx > 25 THEN signalVote(in.adxSignal, 15) ELSE 0)
  + signalVote(in.stochasticSignal, 10)
  + (IF in.vwap = "above" THEN 5 ELSE IF in.vwap = "below" THEN -5 ELSE 0)
  + signalVote(in.supertrend, 10)
  + (IF in.ichimoku = "bullish" THEN 10 ELSE IF in.ichimoku = "bearish" THEN -10 ELSE 0)
  + signalVote(in.parabolicSAR, 5)
  + signalVote(in.volumeSignal, 5)
  + (IF in.riskLevel = "LOW" THEN 5
     ELSE IF in.riskLevel \in {"HIGH", "EXTREME"} THEN -5 ELSE 0)

comprehensiveType_AtLeast40(score) ==
  IF score >= 40 THEN "BUY" ELSE IF score <= -40 THEN "SELL" ELSE "HOLD"

comprehensiveType(score) ==
  IF score > 40 THEN "BUY" ELSE IF score < -40 THEN "SELL" ELSE "HOLD"

\* riskReward ? Number(riskReward.toFixed(2)) : undefined, in hundredths,
\* for riskReward = potentialGain / potentialLoss.
comprehensiveRiskReward(potentialGain, potentialLoss) ==
  IF potentialLoss = 0
  THEN IF potentialGain = 0 THEN Absent ELSE Given(JsDivByZero(potentialGain))
  ELSE LET rounded == RoundDiv(potentialGain * 100, potentialLoss)
       IN IF rounded = 0 THEN Absent ELSE Given(JsNum(rounded))

Thrown(message) == [kind |-> "throw", message |-> message]

\* generateComprehensiveSignal(prices, volumes, highs, lows, opens): the
\* value returned, or the error thrown.  c is the call: the length of prices,
\* its last element and the indicator values of the series.
generateComprehensiveSignal(c) ==
  IF c.pricesLength < 52
  THEN Thrown("Insufficient data for analysis (minimum 52 days required for all indicators)")
  ELSE
    LET confidenceScore == comprehensiveScore(c.indicators)
        type == comprehensiveType(confidenceScore)
        currentPrice == c.currentPrice
        atr == c.indicators.atr
        buyStop == calculateATRStopLoss(currentPrice, atr, 2, "long")
        \* atr * 3 or atr * 2.5
        targetDistance == IF c.indicators.riskLevel = "LOW" THEN atr * 3 ELSE (atr * 5) \div 2
        buyTarget == currentPrice + targetDistance
    IN Returned(
         [type |-> type,
          confidence |-> Abs(confidenceScore),
          entryPrice |-> currentPrice,
          targetPrice |-> IF type = "BUY" THEN Given(buyTarget)
                          ELSE IF type = "SELL" THEN Given(currentPrice - (atr * 5) \div 2)
                          ELSE Absent,
          stopLoss |-> IF type = "BUY" THEN Given(buyStop)
                       ELSE IF type = "SELL"
                            THEN Given(calculateATRStopLoss(currentPrice, atr, 2, "short"))
                       ELSE Absent,
          riskReward |-> IF type = "BUY"
                         THEN comprehensiveRiskReward(buyTarget - currentPrice,
                                                      currentPrice - buyStop)
                         ELSE Absent])

\* The weighted contribution, in hundredths of a point, of an indicator
\* signal s = [signal, strength]: strength * weight / 100 for BUY, its
\* negative for SELL.
weighted(s, weight) ==
  IF s.signal = "BUY" THEN s.strength * weight
  ELSE IF s.signal = "SELL" THEN -(s.strength * weight)
  ELSE 0

\* generateSignal(prices, volumes, highs, lows): the value returned.  c is the
\* call: the lengths of prices and volumes, the last price and the indicator
\* signals of the series.  confidence is in hundredths of a point.
generateSignal(c) ==
  IF c.pricesLength < 30 \/ c.volumesLength < 30
  THEN Returned(
         [type |-> "HOLD",
          confidence |-> 0,
          entryPrice |-> IF c.pricesLength = 0 THEN 0 ELSE c.currentPrice,
          targetPrice |-> Absent,
          stopLoss |-> Absent,
          riskReward |-> Absent])
  ELSE
    LET currentPrice == c.currentPrice
        confidenceScore ==
            weighted(c.rsiSignal, 30) + weighted(c.macdSignal, 35)
          + weighted(c.volumeSignal, 25)
          + (IF c.riskLevel = "LOW" THEN 1000
             ELSE IF c.riskLevel \in {"HIGH", "EXTREME"} THEN -1000 ELSE 0)
        type == IF confidenceScore > 5000 THEN "BUY"
                ELSE IF confidenceScore < -5000 THEN "SELL" ELSE "HOLD"
        targetPercent == IF c.riskLevel = "LOW" THEN 8 ELSE 6
        buyTarget == (currentPrice * (100 + targetPercent)) \div 100
        buyStop == (currentPrice * (100 - stopLossPercent(c.riskLevel))) \div 100
    IN Returned(
         [type |-> type,
          confidence |-> Abs(confidenceScore),
          entryPrice |-> currentPrice,
          targetPrice |-> IF type = "BUY" THEN Given(buyTarget)
                          ELSE IF type = "SELL" THEN Given((currentPrice * 94) \div 100)
                          ELSE Absent,
          stopLoss |-> IF type = "BUY" THEN Given(buyStop)
                       ELSE IF type = "SELL" THEN Given((currentPrice * 104) \div 100)
                       ELSE Absent,
          riskReward |-> IF type = "BUY"
                         THEN Given([potentialGain |-> buyTarget - currentPrice,
                                     potentialLoss |-> currentPrice - buyStop])
                         ELSE Absent])

\* ---- the calls explored ----

SgPrices == {100 * SgUnit, 100 * SgUnit + 300}
SgAtrs == {0, SgCent, 2 * SgUnit}
RiskLevels == {"LOW", "MEDIUM", "HIGH", "EXTREME"}
TradeSignals == {"BUY", "SELL", "HOLD"}

Indicators(rsi, macdHistogram, percentB, adx, stochasticSignal, vwap, supertrend, ichimoku, parabolicSAR, volumeSignal, riskLevel, atr) ==
  [rsi |-> rsi, macdHistogram |-> macdHistogram, percentB |-> percentB,
   adx |-> adx[1], adxSignal |-> adx[2], stochasticSignal |-> stochasticSignal,
   vwap |-> vwap, supertrend |-> supertrend, ichimoku |-> ichimoku,
   parabolicSAR |-> parabolicSAR, volumeSignal |-> volumeSignal,
   riskLevel |-> riskLevel, atr |-> atr]

\* Every combination of indicator votes, for a series of 52 prices.
VoteCalls ==
  { [fn |-> "generateComprehensiveSignal", pricesLength |-> 52,
     currentPrice |-> 100 * SgUnit,
     indicators |-> Indicators(rsi, macd, pb, adx, st, vw, su, ic, ps, vo, rl, 2 * SgUnit)] :
      rsi \in {25, 45, 55, 75}, macd \in {-1, 1}, pb \in {10, 50, 90},
      adx \in {<<30, "BUY">>, <<30, "SELL">>, <<20, "BUY">>},
      st \in TradeSignals, vw \in {"above", "below", "at"}, su \in TradeSignals,
      ic \in {"bullish", "bearish", "neutral"}, ps \in TradeSignals,
      vo \in TradeSignals, rl \in {"LOW", "MEDIUM", "HIGH"} }

Bullish(riskLevel, atr) ==
  Indicators(25, 1, 10, <<30, "BUY">>, "BUY", "above", "BUY", "bullish",
             "BUY", "BUY", riskLevel, atr)

Bearish(riskLevel, atr) ==
  Indicators(75, -1, 90, <<30, "SELL">>, "SELL", "below", "SELL", "bearish",
             "SELL", "SELL", riskLevel, atr)

\* Unanimous indicators, over every price, ATR, risk level and length.
LevelCalls ==
  { [fn |-> "generateComprehensiveSignal", pricesLength |-> n,
     currentPrice |-> p, indicators |-> i] :
      n \in {51, 52}, p \in SgPrices,
      i \in { Bullish(rl, atr) : rl \in RiskLevels, atr \in SgAtrs }
            \cup { Bearish(rl, atr) : rl \in RiskLevels, atr \in SgAtrs } }

ComprehensiveCalls == VoteCalls \cup LevelCalls

IndicatorSignals ==
  { [signal |-> "HOLD", strength |-> 0] }
    \cup [signal : {"BUY", "SELL"}, strength : {50, 100}]

GenerateSignalCalls ==
  [fn : {"generateSignal"}, pricesLength : {29, 30}, volumesLength : {29, 30},
   currentPrice : SgPrices, rsiSignal : IndicatorSignals,
   macdSignal : IndicatorSignals, volumeSignal : IndicatorSignals,
   riskLevel : RiskLevels]

call_generateComprehensiveSignal ==
  /\ libCall.fn = "generateComprehensiveSignal"
  /\ libReturn = NotReturned
  /\ libReturn' = generateComprehensiveSignal(libCall)
  /\ UNCHANGED <<libCall, pvars, btvars>>

call_generateSignal ==
  /\ libCall.fn = "generateSignal"
  /\ libReturn = NotReturned
  /\ libReturn' = generateSignal(libCall)
  /\ UNCHANGED <<libCall, pvars, btvars>>

InitSG ==
  /\ NoPortfolio
  /\ NoEngine
  /\ libCall \in ComprehensiveCalls \cup GenerateSignalCalls
  /\ libReturn = NotReturned

NextSG ==
  \/ call_generateComprehensiveSignal
  \/ call_generateSignal

SpecSG == InitSG /\ [][NextSG]_vars

\* ---------------------------------------------------------------------------
\* Claims on signal generation
\* ---------------------------------------------------------------------------

comprehensiveReturned ==
  /\ libCall.fn = "generateComprehensiveSignal"
  /\ libReturn.kind = "return"

\* C17: for every combination of the eleven indicator votes of
\* generateComprehensiveSignal the summed score lies in [-100, 100], the
\* reported confidence is its absolute value, and the type is BUY iff the
\* score is above 40, SELL iff it is below -40 and HOLD otherwise, so that
\* scores of exactly 40 and -40 give HOLD.
C17_ScoreBoundedAndTypeByThreshold ==
  comprehensiveReturned =>
    LET score == comprehensiveScore(libCall.indicators)
        s == libReturn.value
    IN /\ score >= -100 /\ score <= 100
       /\ s.confidence = Abs(score)
       /\ s.confidence >= 0 /\ s.confidence <= 100
       /\ (s.type = "BUY") <=> (score > 40)
       /\ (s.type = "SELL") <=> (score < -40)
       /\ (s.type = "HOLD") <=> (score >= -40 /\ score <= 40)

\* A call whose votes sum to exactly 40 has returned a HOLD signal.
C17_Witness ==
  /\ comprehensiveReturned
  /\ comprehensiveScore(libCall.indicators) = 40
  /\ libReturn.value.type = "HOLD"
  /\ libReturn.value.confidence = 40

signalReturned ==
  /\ libCall.fn \in {"generateComprehensiveSignal", "generateSignal"}
  /\ libReturn.kind = "return"

\* C18: every BUY signal returned by generateComprehensiveSignal or
\* generateSignal has stopLoss < entryPrice < targetPrice and every SELL
\* signal has targetPrice < entryPrice < stopLoss, whatever the ATR of the
\* series, 0 included.
C18_StopEntryTargetAreOrdered ==
  signalReturned =>
    LET s == libReturn.value
    IN /\ s.type = "BUY" =>
            /\ s.stopLoss.given /\ s.targetPrice.given
            /\ s.stopLoss.v < s.entryPrice
            /\ s.entryPrice < s.targetPrice.v
       /\ s.type = "SELL" =>
            /\ s.stopLoss.given /\ s.targetPrice.given
            /\ s.targetPrice.v < s.entryPrice
            /\ s.entryPrice < s.stopLoss.v

\* x is y rounded to two decimals.
isToFixed2Of(x, y) ==
  /\ x % SgCent = 0
  /\ 2 * Abs(x - y) <= SgCent

tooShort ==
  \/ libCall.fn = "generateComprehensiveSignal" /\ libCall.pricesLength < 52
  \/ libCall.fn = "generateSignal"
       /\ (libCall.pricesLength < 30 \/ libCall.volumesLength < 30)

\* C20: a call of generateComprehensiveSignal or generateSignal with a
\* series shorter than the required minimum ends with a descriptive error
\* thrown to the caller; it never returns a signal, HOLD included.
C20_TooShortSeriesThrows ==
  (/\ libCall.fn \in {"generateComprehensiveSignal", "generateSignal"}
   /\ libReturn # NotReturned
   /\ tooShort)
    => /\ libReturn.kind = "throw"
       /\ libReturn.message # ""

\* C21: run returns a result determined by the config and its two arguments
\* alone: every call of run with the same candles and signals returns the same
\* equity curve, dates and trade ledger, the calls made on an engine that has
\* already run included.
C21_RunIsFunctionOfItsArguments ==
  \A j \in 1..Len(btResults), k \in 1..Len(btResults) :
    /\ btResults[j].equity = btResults[k].equity
    /\ btResults[j].dates = btResults[k].dates
    /\ btResults[j].trades = btResults[k].trades

\* C22: within one candle run first checks the positions open before the
\* candle for stop and target, then applies the due signals, then appends
\* exactly one equity point.  The exit check appends the candle's date,
\* opens nothing and records only 'stop' and 'target' trades; while signals
\* are applied no 'stop' or 'target' trade is recorded, so a position opened
\* on a candle is not checked against that candle; the equity point is
\* capital plus position value at the candle's close after the candle's exits
\* and entries, and it ends the candle.
C22_ExitsThenSignalsThenEquity ==
  [][/\ (btRun.pc = "for" /\ btRun.i <= Len(btRun.sortedData)) =>
          /\ btRun'.pc = "while" /\ btRun'.i = btRun.i
          /\ btDates' = Append(btDates, candle.date)
          /\ btEquity' = btEquity
          /\ \A k \in 1..Len(btPositions') :
               \E j \in 1..Len(btPositions) : btPositions'[k] = btPositions[j]
          /\ \A t \in newTrades : btTrades'[t].exitReason \in {"stop", "target"}
     /\ (btRun.pc = "while" /\ signalDue) =>
          /\ btRun'.pc = "while" /\ btRun'.i = btRun.i
          /\ btRun'.signalIndex = btRun.signalIndex + 1
          /\ btEquity' = btEquity /\ btDates' = btDates
          /\ \A t \in newTrades : btTrades'[t].exitReason = "signal"
     /\ (btRun.pc = "while" /\ ~signalDue) =>
          /\ btRun'.pc = "for" /\ btRun'.i = btRun.i + 1
          /\ btEquity' = Append(btEquity,
                                btCapital + calculatePositionValue(btPositions, candle.close))
          /\ btCapital' = btCapital /\ btPositions' = btPositions
          /\ btTrades' = btTrades /\ btDates' = btDates
     ]_vars

\* The first candle of a first run is over: a long position opened on it is
\* still open although the candle's low is at or below its stop, and the
\* candle's equity point counts it at the close.
C22_Witness ==
  /\ btRun.pc = "for" /\ btRun.i = 2 /\ btRun.runs = 1
  /\ Len(btPositions) = 1
  /\ btPositions[1].side = "long"
  /\ btRun.sortedData[1].low <= btPositions[1].stopLoss
  /\ btTrades = <<>>
  /\ Len(btEquity) = 2
  /\ btEquity[2] = btCapital + btPositions[1].shares * btRun.sortedData[1].close * BtMicro

\* list is in ascending date order.
ascending(list) ==
  \A j \in 1..Len(list), k \in 1..Len(list) : j < k => list[j].date <= list[k].date

\* The number of elements of list equal to e.
occurrences(list, e) == Cardinality({k \in 1..Len(list) : list[k] = e})

\* C23: within one call of run the signals are applied one by one in
\* ascending date order, whatever the order of the arguments, each at most
\* once: signalIndex only moves forward by one, the signal applied is dated
\* on or before the current candle and after the candle before it, so it is
\* applied at the first candle dated on or after it; when the call returns,
\* exactly the signals dated on or before the last candle have been applied,
\* a signal dated after the last candle never.
C23_SignalsAppliedOnceInDateOrder ==
  /\ [](btRun.pc \in {"for", "while", "done"} =>
          /\ ascending(btRun.sortedSignals)
          /\ ascending(btRun.sortedData)
          /\ Len(btRun.sortedSignals) = Len(btInput.signals)
          /\ \A k \in 1..Len(btInput.signals) :
               occurrences(btRun.sortedSignals, btInput.signals[k])
                 = occurrences(btInput.signals, btInput.signals[k]))
  /\ [](btRun.pc = "done" =>
          \A k \in 1..Len(btRun.sortedSignals) :
            (k < btRun.signalIndex) <=>
              (/\ btRun.sortedData # <<>>
               /\ btRun.sortedSignals[k].date
                    <= btRun.sortedData[Len(btRun.sortedData)].date))
  /\ [][/\ btRun.pc \in {"for", "while"} =>
             \/ btRun'.signalIndex = btRun.signalIndex
             \/ /\ btRun'.signalIndex = btRun.signalIndex + 1
                /\ btRun.pc = "while"
                /\ signal.date <= candle.date
                /\ btRun.i > 1 => btRun.sortedData[btRun.i - 1].date < signal.date
                /\ SetEngine(processSignal(engine, btConfig, signal, candle))
       ]_vars

\* A first run has returned: its signals were passed in descending date
\* order, the earlier one was applied on the first candle and the later one
\* on the second.
C23_Witness ==
  /\ btRun.pc = "done" /\ btRun.runs = 1
  /\ Len(btInput.signals) = 2
  /\ btInput.signals[1].date > btInput.signals[2].date
  /\ Len(btRun.sortedData) = 2
  /\ btRun.sortedData[1].date < btRun.sortedData[2].date
  /\ btRun.signalIndex = 3
  /\ btRun.sortedSignals = <<btInput.signals[2], btInput.signals[1]>>

\* ---------------------------------------------------------------------------
\* Further claims about PaperTradingPortfolio
\* ---------------------------------------------------------------------------

\* C24: cash is never negative, in any state the portfolio can reach, the
\* states after updatePositions has filled pending limit or stop buy orders
\* included.
C24_CashNeverNegative == cash >= 0

\* C27: a closed round trip stays counted.  Once calculateClosedTrades has an
\* entry for a symbol it has one after every later operation, a new buy of
\* the same symbol included, and the number of entries never decreases.
C27_ClosedTradesStayCounted ==
  [][/\ \A t \in calculateClosedTrades :
          \E u \in calculateClosedTrades' : u.symbol = t.symbol
     /\ Cardinality(calculateClosedTrades') >= Cardinality(calculateClosedTrades)
    ]_vars

\* The trades of tradeHistory recorded for order id.
tradesOf(id) == {k \in 1..Len(tradeHistory) : tradeHistory[k].id = id}

\* C28: every order with status 'filled', whether a market order or a limit
\* or stop order filled by updatePositions, has exactly one trade of its id in
\* tradeHistory, for its side, symbol and filled shares, and it is not in the
\* open list.
C28_FilledOrderHasItsTrade ==
  \A id \in 1..Len(orders) :
    orders[id].status = "filled" =>
      /\ ~InSeq(openOrders, id)
      /\ Cardinality(tradesOf(id)) = 1
      /\ \A k \in tradesOf(id) :
           /\ tradeHistory[k].symbol = orders[id].symbol
           /\ tradeHistory[k].side = orders[id].side
           /\ tradeHistory[k].shares = orders[id].filledShares

\* C29: cancelOrder(id) touches the open-order list only.  For the id of a
\* pending order it returns true, marks that order cancelled and takes it
\* out of the list, leaving cash, positions, tradeHistory and every other
\* order as they were and the rest of the list in order; for any other id it
\* returns false and changes nothing.  A cancelled order stays as it is and
\* gets no trade, whatever prices updatePositions sees later.
C29_CancelOrderTouchesOnlyTheOpenList ==
  [][/\ \A id \in 1..(Len(orders) + 1) :
          (ret'.op = "cancelOrder" /\ cancelOrder(id)) =>
            IF InSeq(openOrders, id)
            THEN /\ ret'.result = "true"
                 /\ orders[id].status = "pending"
                 /\ orders'[id] = [orders[id] EXCEPT !.status = "cancelled"]
                 /\ \A j \in 1..Len(orders) : j # id => orders'[j] = orders[j]
                 /\ Len(orders') = Len(orders)
                 /\ openOrders' = SelectSeq(openOrders, LAMBDA j : j # id)
                 /\ UNCHANGED <<cash, positions, tradeHistory>>
            ELSE /\ ret'.result = "false"
                 /\ PortfolioUnchanged
     /\ ret'.op = "cancelOrder" => UNCHANGED <<cash, positions, tradeHistory>>
     /\ \A id \in 1..Len(orders) :
          orders[id].status = "cancelled" =>
            /\ orders'[id] = orders[id]
            /\ ~InSeq(openOrders', id)
            /\ \A k \in 1..Len(tradeHistory') : tradeHistory'[k].id # id
    ]_vars

\* updatePositions has just filled order 2, a pending order with the side,
\* symbol, type and price of order 1, which was cancelled before and stays cancelled
\* and without a trade.
C29_Witness ==
  /\ ret.op = "updatePositions"
  /\ Len(orders) = 2
  /\ orders[1].status = "cancelled"
  /\ orders[2].status = "filled"
  /\ orders[2].type = orders[1].type
  /\ orders[2].side = orders[1].side
  /\ orders[2].symbol = orders[1].symbol
  /\ orders[2].price = orders[1].price
  /\ \A k \in 1..Len(tradeHistory) : tradeHistory[k].id # 1

\* ---------------------------------------------------------------------------
\* Further claims about the BacktestEngine
\* ---------------------------------------------------------------------------

\* C25: no position is lost.  Every step of a run keeps the entries made
\* equal to the positions open plus the trades recorded: a BUY or SELL signal
\* that changes capital adds exactly one open position and no trade, and every
\* other step records one trade for each position it removes and removes no
\* position otherwise.
C25_EntriesAreOpenOrClosed ==
  [][IF /\ btRun.pc = "while" /\ signalDue
        /\ signal.type \in {"BUY", "SELL"}
        /\ btCapital' # btCapital
     THEN /\ Len(btPositions') = Len(btPositions) + 1
          /\ btTrades' = btTrades
     ELSE Len(btPositions') + Len(btTrades') = Len(btPositions) + Len(btTrades)
    ]_vars

\* capital plus position value at the price, for the engine as it is.
equityAt(price) == btCapital + calculatePositionValue(btPositions, price)

\* C26: opening a position creates no equity.  With slippage 0 and
\* commission 0, a BUY or SELL signal priced at the candle's close that opens
\* a position leaves capital plus position value at the close as it was
\* before the entry, so the equity point of the candle is the equity before
\* the entry, for a long and for a short.
C26_OpeningCreatesNoEquity ==
  [][(/\ btRun.pc = "while" /\ signalDue
      /\ signal.type \in {"BUY", "SELL"}
      /\ signal.price = candle.close
      /\ btConfig.slippage = 0 /\ btConfig.commission = 0
      /\ Len(btPositions') = Len(btPositions) + 1)
       => equityAt(candle.close)' = equityAt(candle.close)
    ]_vars

\* ---------------------------------------------------------------------------
\* Runs over a price gap: the candles of SpecBT and one that trades around
\* 400, the signals of SpecBT and a SELL without stop-loss and target
\* (Signal.stopLoss and Signal.target are optional).
\* ---------------------------------------------------------------------------

GapCandleSet ==
  CandleSet \cup { [date |-> d, high |-> 410, low |-> 390, close |-> 400] : d \in BtDates }

GapSignalSet ==
  SignalSet \cup { [date |-> d, type |-> "SELL", price |-> 100,
                    stopLoss |-> NoPrice, target |-> NoPrice] : d \in BtDates }

InitBTGap ==
  /\ NoPortfolio
  /\ NoCall
  /\ \E config \in BtConfigs : BacktestEngine_constructor(config)
  /\ btInput \in [historicalData : SeqsOf(GapCandleSet, CandleCounts),
                  signals : SeqsOf(GapSignalSet, SignalCounts)]
  /\ btRun = NotRunning
  /\ btResults = <<>>

SpecBTGap == InitBTGap /\ [][NextBT]_vars

\* C30: the capital of the engine is never negative at any step of a run,
\* whatever the candles and signals, runs that close short positions at a
\* loss included.
C30_CapitalNeverNegative == btCapital >= 0

====
